---- MODULE Spec2Model ----
(***************************************************************************)
(* State machine of the MultiSelectAutocomplete component                  *)
(* (src/src/components/MultiSelectAutocomplete.tsx): the useState cells,   *)
(* the lookup effect with its then/catch callbacks, and the keyboard and   *)
(* mouse handlers.  Every handler runs to completion on the event loop, so *)
(* each one is a single action; the only asynchrony is the set of lookups  *)
(* that were issued and have not resolved yet.                             *)
(***************************************************************************)
EXTENDS Integers, Sequences, FiniteSets, TLC

\* Largest number of lookups outstanding at once (the code has no limit).
MaxInFlight == 2

\* Number of characters the remote service knows.
NumCharacters == 2

(***************************************************************************)
(* The remote service.  It is not part of the repository; the component    *)
(* only relies on GET ?name=<text> answering {results: [{id, name, image,  *)
(* episode}]} or failing.  Character i is named "r" followed by i-1 "m"s,  *)
(* and the name filter is a substring match, so the two texts below get    *)
(* answers of different length.                                            *)
(***************************************************************************)
Texts == {<<>>, <<"r">>, <<"m">>}

Ids == 1..NumCharacters

NameOf(i) == [k \in 1..i |-> IF k = 1 THEN "r" ELSE "m"]

Contains(name, q) ==
    \E s \in 0..(Len(name) - Len(q)) : \A k \in 1..Len(q) : name[s + k] = q[k]

\* One entry of the payload's result list, as the service sends it.
PayloadOf(i) ==
    [id |-> i, name |-> NameOf(i), image |-> i, episode |-> [k \in 1..i |-> k]]

RECURSIVE Matching(_, _)
Matching(q, i) ==
    IF i > NumCharacters THEN <<>>
    ELSE IF Contains(NameOf(i), q) THEN <<PayloadOf(i)>> \o Matching(q, i + 1)
    ELSE Matching(q, i + 1)

\* response.data.results of a successful GET for text q.
ServerResults(q) == Matching(q, 1)

\* The ways a lookup can fail: all of them end in the catch callback.
FailureKinds == {"network", "status", "malformed"}

(***************************************************************************)
(* JavaScript numbers as far as the handlers use them: a number, NaN       *)
(* (x % 0) or null (hoveredIndex only).                                    *)
(***************************************************************************)
Num(n) == [t |-> "number", n |-> n]
NaN == [t |-> "NaN", n |-> 0]
Null == [t |-> "null", n |-> 0]

\* a % n of JavaScript for integers: the sign follows the dividend.
Rem(a, n) == IF a >= 0 THEN a % n ELSE 0 - ((0 - a) % n)

JSPlus(x, k) == IF x.t = "number" THEN Num(x.n + k) ELSE NaN

JSRem(x, n) == IF x.t = "number" /\ n # 0 THEN Num(Rem(x.n, n)) ELSE NaN

\* array[x]: the element, or undefined outside 0..length-1 and for NaN.
Undefined == [id |-> 0, name |-> <<>>, image |-> 0, episodeCount |-> 0]

At(array, x) ==
    IF x.t = "number" /\ x.n >= 0 /\ x.n < Len(array) THEN array[x.n + 1]
    ELSE Undefined

VARIABLES
    searchQuery,         \* useState<string>("")
    selectedCharacters,  \* useState<Character[]>([])
    searchResults,       \* useState<Character[]>([])
    isLoading,           \* useState<boolean>(false)
    isError,             \* useState<boolean>(false)
    highlightedIndex,    \* useState<number>(0)
    hoveredIndex,        \* useState<number | null>(null)
    inFlight,            \* lookups issued and not resolved, in issue order
    latest,              \* fate of the most recently issued lookup
    thrown               \* the last handler ended with an uncaught TypeError

vars == <<searchQuery, selectedCharacters, searchResults, isLoading, isError,
          highlightedIndex, hoveredIndex, inFlight, latest, thrown>>

Init ==
    /\ searchQuery = <<>>
    /\ selectedCharacters = <<>>
    /\ searchResults = <<>>
    /\ isLoading = FALSE
    /\ isError = FALSE
    /\ highlightedIndex = Num(0)
    /\ hoveredIndex = Null
    /\ inFlight = <<>>
    /\ latest = "none"
    /\ thrown = FALSE

(***************************************************************************)
(* Selection set                                                           *)
(***************************************************************************)
isCharacterSelected(selected, id) ==
    \E k \in 1..Len(selected) : selected[k].id = id

\* selectedCharacters.filter((c) => c.id !== id)
FilterOut(selected, id) ==
    LET Keep(c) == c.id # id IN SelectSeq(selected, Keep)

\* selectCharacter without the membership test: always appends.
selectCharacterAlwaysAppends(selected, character) == Append(selected, character)

\* selectCharacter putting a new item first instead of last.
selectCharacterPrepends(selected, character) ==
    IF isCharacterSelected(selected, character.id)
    THEN FilterOut(selected, character.id)
    ELSE <<character>> \o selected

\* The value selectCharacter hands to setSelectedCharacters, computed from
\* the selectedCharacters of the render the handler closes over.
selectCharacter(selected, character) ==
    IF isCharacterSelected(selected, character.id)
    THEN FilterOut(selected, character.id)
    ELSE Append(selected, character)

\* removeCharacter with the filter's test inverted: keeps only the match.
removeCharacterKeepsOnlyMatch(prev, characterId) ==
    LET Keep(c) == c.id = characterId IN SelectSeq(prev, Keep)

\* The updater removeCharacter hands to setSelectedCharacters.
removeCharacter(prev, characterId) == FilterOut(prev, characterId)

(***************************************************************************)
(* Query controller                                                        *)
(***************************************************************************)
\* The effect with de-duplication: no new lookup while one is outstanding.
EffectSkipsWhileLoading(newQuery) ==
    IF Len(newQuery) > 0 /\ ~isLoading
    THEN /\ isLoading' = TRUE
         /\ inFlight' = Append(inFlight, [query |-> newQuery])
         /\ latest' = "pending"
    ELSE UNCHANGED <<isLoading, inFlight, latest>>

\* The effect on [searchQuery]: runs after the render that changed the text.
Effect(newQuery) ==
    IF Len(newQuery) > 0
    THEN /\ isLoading' = TRUE
         /\ inFlight' = Append(inFlight, [query |-> newQuery])
         /\ latest' = "pending"
    ELSE UNCHANGED <<isLoading, inFlight, latest>>

\* updateSearchQuery clearing the error only when a lookup will run.
updateSearchQueryKeepsError(newQuery) ==
    /\ newQuery # searchQuery
    /\ Len(newQuery) > 0 => Len(inFlight) < MaxInFlight
    /\ searchQuery' = newQuery
    /\ isError' = IF Len(newQuery) > 0 THEN FALSE ELSE isError
    /\ Effect(newQuery)
    /\ thrown' = FALSE
    /\ UNCHANGED <<selectedCharacters, searchResults, highlightedIndex,
                   hoveredIndex>>

\* onChange of the text input: updateSearchQuery, then the effect.
updateSearchQuery(newQuery) ==
    /\ newQuery # searchQuery
    /\ Len(newQuery) > 0 => Len(inFlight) < MaxInFlight
    /\ searchQuery' = newQuery
    /\ isError' = FALSE
    /\ Effect(newQuery)
    /\ thrown' = FALSE
    /\ UNCHANGED <<selectedCharacters, searchResults, highlightedIndex,
                   hoveredIndex>>

Remove(s, i) == SubSeq(s, 1, i - 1) \o SubSeq(s, i + 1, Len(s))

\* response.data.results.map(...)
ToCharacters(payload) ==
    [k \in 1..Len(payload) |->
        [id |-> payload[k].id, name |-> payload[k].name,
         image |-> payload[k].image, episodeCount |-> Len(payload[k].episode)]]

Settle(i, outcome) ==
    /\ inFlight' = Remove(inFlight, i)
    /\ latest' = IF i = Len(inFlight) /\ latest = "pending" THEN outcome
                 ELSE latest

\* The .then callback as it would be with request sequencing: the response
\* of a superseded lookup is dropped.
LookupSucceededIfLatest(i) ==
    /\ i \in 1..Len(inFlight)
    /\ searchResults' =
           IF i = Len(inFlight)
           THEN ToCharacters(ServerResults(inFlight[i].query))
           ELSE searchResults
    /\ isLoading' = FALSE
    /\ Settle(i, "ok")
    /\ thrown' = FALSE
    /\ UNCHANGED <<searchQuery, selectedCharacters, isError, highlightedIndex,
                   hoveredIndex>>

\* The .then callback without setIsLoading(false).
LookupSucceededKeepsLoading(i) ==
    /\ i \in 1..Len(inFlight)
    /\ searchResults' = ToCharacters(ServerResults(inFlight[i].query))
    /\ Settle(i, "ok")
    /\ thrown' = FALSE
    /\ UNCHANGED <<searchQuery, selectedCharacters, isLoading, isError,
                   highlightedIndex, hoveredIndex>>

\* The .then callback merging the response into the previous results.
LookupSucceededMerges(i) ==
    /\ i \in 1..Len(inFlight)
    /\ searchResults' =
           searchResults \o ToCharacters(ServerResults(inFlight[i].query))
    /\ isLoading' = FALSE
    /\ Settle(i, "ok")
    /\ thrown' = FALSE
    /\ UNCHANGED <<searchQuery, selectedCharacters, isError, highlightedIndex,
                   hoveredIndex>>

\* .then callback of the i-th outstanding lookup.
LookupSucceeded(i) ==
    /\ i \in 1..Len(inFlight)
    /\ searchResults' = ToCharacters(ServerResults(inFlight[i].query))
    /\ isLoading' = FALSE
    /\ Settle(i, "ok")
    /\ thrown' = FALSE
    /\ UNCHANGED <<searchQuery, selectedCharacters, isError, highlightedIndex,
                   hoveredIndex>>

\* The .catch callback without setIsLoading(false).
LookupFailedKeepsLoading(i, kind) ==
    /\ i \in 1..Len(inFlight)
    /\ kind \in FailureKinds
    /\ isError' = TRUE
    /\ Settle(i, "failed")
    /\ thrown' = FALSE
    /\ UNCHANGED <<searchQuery, selectedCharacters, searchResults, isLoading,
                   highlightedIndex, hoveredIndex>>

\* The .catch callback also clearing the results.
LookupFailedClearsResults(i, kind) ==
    /\ i \in 1..Len(inFlight)
    /\ kind \in FailureKinds
    /\ isError' = TRUE
    /\ isLoading' = FALSE
    /\ searchResults' = <<>>
    /\ Settle(i, "failed")
    /\ thrown' = FALSE
    /\ UNCHANGED <<searchQuery, selectedCharacters, highlightedIndex,
                   hoveredIndex>>

\* .catch callback of the i-th outstanding lookup: a rejected GET, or a
\* payload on which the .then callback threw before setting any state.
LookupFailed(i, kind) ==
    /\ i \in 1..Len(inFlight)
    /\ kind \in FailureKinds
    /\ isError' = TRUE
    /\ isLoading' = FALSE
    /\ Settle(i, "failed")
    /\ thrown' = FALSE
    /\ UNCHANGED <<searchQuery, selectedCharacters, searchResults,
                   highlightedIndex, hoveredIndex>>

(***************************************************************************)
(* Keyboard and mouse handlers                                             *)
(***************************************************************************)
\* setHighlightedIndex updater of handleKeyDown.
NextHighlighted(key, prevIndex, length) ==
    IF key = "ArrowDown" THEN JSRem(JSPlus(prevIndex, 1), length)
    ELSE JSRem(JSPlus(JSPlus(prevIndex, -1), length), length)

\* setHoveredIndex updater of handleKeyDown.
NextHovered(key, prevIndex, length) ==
    IF key = "ArrowDown"
    THEN IF prevIndex # Null THEN JSRem(JSPlus(prevIndex, 1), length)
         ELSE Num(0)
    ELSE IF prevIndex # Null
         THEN JSRem(JSPlus(JSPlus(prevIndex, -1), length), length)
         ELSE Num(length - 1)

\* handleKeyDown, ArrowDown / ArrowUp branch.
Arrow(key) ==
    /\ key \in {"ArrowDown", "ArrowUp"}
    /\ highlightedIndex' =
           NextHighlighted(key, highlightedIndex, Len(searchResults))
    /\ hoveredIndex' = NextHovered(key, hoveredIndex, Len(searchResults))
    /\ thrown' = FALSE
    /\ UNCHANGED <<searchQuery, selectedCharacters, searchResults, isLoading,
                   isError, inFlight, latest>>

\* The item Enter hands to selectCharacter.
EnterTarget == At(searchResults, JSPlus(highlightedIndex, -1))

\* handleKeyDown, Enter branch.  selectCharacter(undefined) reads
\* character.id and throws before any state is set.
Enter ==
    /\ IF highlightedIndex # Null /\ Len(searchResults) > 0
       THEN IF EnterTarget = Undefined
            THEN /\ thrown' = TRUE
                 /\ UNCHANGED selectedCharacters
            ELSE /\ thrown' = FALSE
                 /\ selectedCharacters' =
                        selectCharacter(selectedCharacters, EnterTarget)
       ELSE /\ thrown' = FALSE
            /\ UNCHANGED selectedCharacters
    /\ UNCHANGED <<searchQuery, searchResults, isLoading, isError,
                   highlightedIndex, hoveredIndex, inFlight, latest>>

\* slice(1) instead of slice(0, -1): drops the oldest item.
DropFirst(selected) == SubSeq(selected, 2, Len(selected))

\* selectedCharacters.slice(0, -1)
DropLast(selected) == SubSeq(selected, 1, Len(selected) - 1)

\* handleKeyDown, Backspace / Delete branch.
BackspaceOrDelete(key) ==
    /\ key \in {"Backspace", "Delete"}
    /\ selectedCharacters' =
           IF Len(searchQuery) = 0 /\ Len(selectedCharacters) > 0
           THEN DropLast(selectedCharacters)
           ELSE selectedCharacters
    /\ thrown' = FALSE
    /\ UNCHANGED <<searchQuery, searchResults, isLoading, isError,
                   highlightedIndex, hoveredIndex, inFlight, latest>>

\* handleKeyDown, Tab branch (empty).
Tab ==
    /\ thrown' = FALSE
    /\ UNCHANGED <<searchQuery, selectedCharacters, searchResults, isLoading,
                   isError, highlightedIndex, hoveredIndex, inFlight, latest>>

\* handleMouseEnter also moving the keyboard highlight to the row.
handleMouseEnterMovesHighlight(index) ==
    /\ index \in 0..(Len(searchResults) - 1)
    /\ hoveredIndex' = Num(index)
    /\ highlightedIndex' = Num(index)
    /\ thrown' = FALSE
    /\ UNCHANGED <<searchQuery, selectedCharacters, searchResults, isLoading,
                   isError, inFlight, latest>>

\* onMouseEnter of result row index (0-based).
handleMouseEnter(index) ==
    /\ index \in 0..(Len(searchResults) - 1)
    /\ hoveredIndex' = Num(index)
    /\ thrown' = FALSE
    /\ UNCHANGED <<searchQuery, selectedCharacters, searchResults, isLoading,
                   isError, highlightedIndex, inFlight, latest>>

\* onMouseLeave of a result row.
handleMouseLeave ==
    /\ Len(searchResults) > 0
    /\ hoveredIndex' = Null
    /\ thrown' = FALSE
    /\ UNCHANGED <<searchQuery, selectedCharacters, searchResults, isLoading,
                   isError, highlightedIndex, inFlight, latest>>

\* onClick of result row index, outside its checkbox.
ClickRow(index) ==
    /\ index \in 0..(Len(searchResults) - 1)
    /\ selectedCharacters' =
           selectCharacter(selectedCharacters, searchResults[index + 1])
    /\ thrown' = FALSE
    /\ UNCHANGED <<searchQuery, searchResults, isLoading, isError,
                   highlightedIndex, hoveredIndex, inFlight, latest>>

\* The checkbox click as it would be with functional updates: the row's
\* onClick toggles the value the checkbox's onChange has just produced.
ClickCheckboxChained(index) ==
    /\ index \in 0..(Len(searchResults) - 1)
    /\ LET character == searchResults[index + 1]
           fromOnChange == selectCharacter(selectedCharacters, character)
           fromOnClick == selectCharacter(fromOnChange, character)
           queue == <<fromOnChange, fromOnClick>>
       IN selectedCharacters' = queue[Len(queue)]
    /\ thrown' = FALSE
    /\ UNCHANGED <<searchQuery, searchResults, isLoading, isError,
                   highlightedIndex, hoveredIndex, inFlight, latest>>

\* A click on the checkbox of result row index: the checkbox's onChange and,
\* as the click bubbles, the row's onClick run in one batch; both closures
\* hold the selectedCharacters of the same render and the later
\* setSelectedCharacters value wins.
ClickCheckbox(index) ==
    /\ index \in 0..(Len(searchResults) - 1)
    /\ LET character == searchResults[index + 1]
           fromOnChange == selectCharacter(selectedCharacters, character)
           fromOnClick == selectCharacter(selectedCharacters, character)
           queue == <<fromOnChange, fromOnClick>>
       IN selectedCharacters' = queue[Len(queue)]
    /\ thrown' = FALSE
    /\ UNCHANGED <<searchQuery, searchResults, isLoading, isError,
                   highlightedIndex, hoveredIndex, inFlight, latest>>

\* onClick of the selected tag at position k.
ClickTag(k) ==
    /\ k \in 1..Len(selectedCharacters)
    /\ selectedCharacters' =
           removeCharacter(selectedCharacters, selectedCharacters[k].id)
    /\ thrown' = FALSE
    /\ UNCHANGED <<searchQuery, searchResults, isLoading, isError,
                   highlightedIndex, hoveredIndex, inFlight, latest>>

Next ==
    \/ \E newQuery \in Texts : updateSearchQuery(newQuery)
    \/ \E i \in 1..MaxInFlight : LookupSucceeded(i)
    \/ \E i \in 1..MaxInFlight, kind \in FailureKinds : LookupFailed(i, kind)
    \/ \E key \in {"ArrowDown", "ArrowUp"} : Arrow(key)
    \/ Enter
    \/ \E key \in {"Backspace", "Delete"} : BackspaceOrDelete(key)
    \/ Tab
    \/ \E index \in 0..(NumCharacters - 1) : handleMouseEnter(index)
    \/ handleMouseLeave
    \/ \E index \in 0..(NumCharacters - 1) : ClickRow(index)
    \/ \E index \in 0..(NumCharacters - 1) : ClickCheckbox(index)
    \/ \E k \in 1..NumCharacters : ClickTag(k)

Spec == Init /\ [][Next]_vars

\* Some outstanding lookup resolves, one way or the other.
Resolve ==
    \E i \in 1..MaxInFlight :
        \/ LookupSucceeded(i)
        \/ \E kind \in FailureKinds : LookupFailed(i, kind)

\* The component with a network that answers: an outstanding lookup is
\* eventually resolved (axios settles every promise, by a response or by an
\* error).
FairSpec == Spec /\ WF_vars(Resolve)

(***************************************************************************)
(* Properties                                                              *)
(***************************************************************************)
Rows == 0..(NumCharacters - 1)

Slots == 1..MaxInFlight

\* The Character the component builds from the service's entry for id i.
CharacterOf(i) == [id |-> i, name |-> NameOf(i), image |-> i, episodeCount |-> i]

\* C1: in every reachable state no two items of the selection have the
\* same id.
C1_UniqueIds ==
    \A j, k \in 1..Len(selectedCharacters) :
        j # k => selectedCharacters[j].id # selectedCharacters[k].id

\* C1 witness: every character of the service is selected at once.
C1_Witness ==
    /\ Len(selectedCharacters) = NumCharacters
    /\ \A i \in Ids : \E k \in 1..Len(selectedCharacters) :
           selectedCharacters[k].id = i

\* What a toggle by id must yield, stated without the model's helpers.
C2_Toggled(selected, x) ==
    IF \A k \in 1..Len(selected) : selected[k].id # x.id
    THEN selected \o <<x>>
    ELSE LET k == CHOOSE k \in 1..Len(selected) : selected[k].id = x.id
         IN [j \in 1..(Len(selected) - 1) |->
                IF j < k THEN selected[j] ELSE selected[j + 1]]

\* C2: selectCharacter(x) appends x at the end when no entry has x's id, and
\* otherwise removes that entry and keeps the order of the others; checked
\* on every click of a result row, whose handler is selectCharacter(x).
C2_ToggleById ==
    [][\A index \in Rows :
           ClickRow(index) =>
               selectedCharacters' =
                   C2_Toggled(selectedCharacters, searchResults[index + 1])]_vars

\* C2 witness: two items were appended in click order (the last character
\* before the first) and the first of them is on screen, so a click removes
\* it from before the other.
C2_Witness ==
    /\ Len(selectedCharacters) = 2
    /\ selectedCharacters[1].id = NumCharacters
    /\ selectedCharacters[2].id = 1
    /\ \E index \in Rows :
           /\ index < Len(searchResults)
           /\ searchResults[index + 1].id = NumCharacters

\* C3: with results non-empty, Enter toggles the item at position
\* highlightedIndex - 1, that item exists, and no error is raised.
C3_EnterToggles ==
    [][(Enter /\ Len(searchResults) > 0) =>
           /\ ~thrown'
           /\ \E k \in 1..Len(searchResults) :
                  /\ highlightedIndex = Num(k)
                  /\ selectedCharacters' =
                         C2_Toggled(selectedCharacters, searchResults[k])]_vars

\* C4: with results empty, ArrowDown and ArrowUp raise no error and leave
\* highlightedIndex and hoveredIndex as they were.
C4_ArrowsOnEmptyResults ==
    [][\A key \in {"ArrowDown", "ArrowUp"} :
           (Arrow(key) /\ Len(searchResults) = 0) =>
               /\ ~thrown'
               /\ highlightedIndex' = highlightedIndex
               /\ hoveredIndex' = hoveredIndex]_vars

\* C5: while the lookup issued for the current text has not resolved,
\* isLoading is true.
C5_LoadingWhileCurrentLookupPending ==
    (Len(searchQuery) > 0 /\ latest = "pending") => isLoading

\* C6: the response of a lookup that was superseded by a later one is
\* applied to searchResults all the same: responses are not matched to
\* requests.
C6_SupersededResponseApplied ==
    [][\A i \in Slots :
           (LookupSucceeded(i) /\ i < Len(inFlight)) =>
               searchResults' =
                   [k \in 1..Len(ServerResults(inFlight[i].query)) |->
                       CharacterOf(ServerResults(inFlight[i].query)[k].id)]]_vars

\* C6 witness: nothing is outstanding, the lookup for the current text was
\* issued last and succeeded, and the results are those of another text.
C6_Witness ==
    /\ inFlight = <<>>
    /\ Len(searchQuery) > 0
    /\ latest = "ok"
    /\ searchResults # ToCharacters(ServerResults(searchQuery))
    /\ \E q \in Texts :
           /\ q # searchQuery
           /\ Len(q) > 0
           /\ searchResults = ToCharacters(ServerResults(q))

\* C7: at rest and with no edit since the last lookup was issued, isError
\* is true exactly when that lookup failed.
C7_ErrorReflectsLatestLookup ==
    (inFlight = <<>> /\ Len(searchQuery) > 0) => (isError <=> latest = "failed")

\* C8: with no lookup outstanding, isLoading and isError are not both true.
C8_AtRestNotBoth == inFlight = <<>> => ~(isLoading /\ isError)

\* C8 witness: at rest after a failed lookup.
C8_Witness == inFlight = <<>> /\ isError /\ latest = "failed"

\* C9: a failed lookup sets isError, clears isLoading, leaves results,
\* selection, text and both indices alone, and raises nothing.
C9_FailureEffect ==
    [][\A i \in Slots, kind \in FailureKinds :
           LookupFailed(i, kind) =>
               /\ isError' = TRUE
               /\ isLoading' = FALSE
               /\ ~thrown'
               /\ UNCHANGED <<searchResults, selectedCharacters, searchQuery,
                              highlightedIndex, hoveredIndex>>]_vars

\* C9 witness: a failure was delivered while results, a selection and moved
\* indices were present.
C9_Witness ==
    /\ isError
    /\ ~isLoading
    /\ searchResults # <<>>
    /\ selectedCharacters # <<>>
    /\ highlightedIndex # Num(0)
    /\ hoveredIndex # Null

\* C10: a successful lookup makes results exactly the items of its
\* response, in response order, clears isLoading and leaves isError,
\* selection, text and both indices alone.
C10_SuccessEffect ==
    [][\A i \in Slots :
           LookupSucceeded(i) =>
               LET payload == ServerResults(inFlight[i].query)
               IN /\ Len(searchResults') = Len(payload)
                  /\ \A k \in 1..Len(payload) :
                         searchResults'[k] = CharacterOf(payload[k].id)
                  /\ isLoading' = FALSE
                  /\ UNCHANGED <<isError, selectedCharacters, searchQuery,
                                 highlightedIndex, hoveredIndex>>]_vars

\* C10 witness: the results are the shorter answer for "m" while
\* highlightedIndex still points past its end, so a longer list was replaced
\* and none of its other items was kept.
C10_Witness ==
    /\ searchResults = ToCharacters(ServerResults(<<"m">>))
    /\ highlightedIndex = Num(NumCharacters - 1)
    /\ isError
    /\ ~isLoading

\* C11: a change of the text to a non-empty value issues exactly one lookup
\* for that value and sets isLoading, however many lookups are outstanding;
\* a change to the empty text issues none and leaves searchResults and
\* isLoading alone.
C11_OneLookupPerNonEmptyChange ==
    [][\A newQuery \in Texts :
           updateSearchQuery(newQuery) =>
               IF newQuery # <<>>
               THEN /\ Len(inFlight') = Len(inFlight) + 1
                    /\ \A k \in 1..Len(inFlight) : inFlight'[k] = inFlight[k]
                    /\ inFlight'[Len(inFlight')].query = newQuery
                    /\ isLoading' = TRUE
               ELSE /\ inFlight' = inFlight
                    /\ searchResults' = searchResults
                    /\ isLoading' = isLoading]_vars

\* C11 witness: a lookup for the current text was issued while an earlier
\* one was still outstanding.
C11_Witness ==
    /\ Len(inFlight) >= 2
    /\ inFlight[Len(inFlight)].query = searchQuery
    /\ inFlight[1].query # searchQuery
    /\ isLoading

\* C12: with results non-empty, ArrowDown then ArrowUp, and ArrowUp then
\* ArrowDown, bring highlightedIndex back to where it was, also when it was
\* left at or beyond the length of the results.
C12_ArrowsAreInverse ==
    Len(searchResults) > 0 =>
        LET n == Len(searchResults)
        IN /\ NextHighlighted("ArrowUp",
                  NextHighlighted("ArrowDown", highlightedIndex, n), n)
                  = highlightedIndex
           /\ NextHighlighted("ArrowDown",
                  NextHighlighted("ArrowUp", highlightedIndex, n), n)
                  = highlightedIndex

\* C13: on non-empty results of length n an arrow key sets highlightedIndex
\* to (old + 1) mod n or (old - 1) mod n, so that 0 <= highlightedIndex < n
\* right after it, whatever happened before.
C13_HighlightedWraps ==
    [][\A key \in {"ArrowDown", "ArrowUp"} :
           (Arrow(key) /\ Len(searchResults) > 0) =>
               LET n == Len(searchResults)
                   step == IF key = "ArrowDown" THEN 1 ELSE -1
               IN /\ highlightedIndex'.t = "number"
                  /\ highlightedIndex'.n \in 0..(n - 1)
                  /\ highlightedIndex.t = "number"
                  /\ highlightedIndex'.n = (highlightedIndex.n + step) % n]_vars

\* C14: on non-empty results of length n an arrow key moves hoveredIndex
\* from null to 0 (down) or n - 1 (up) and from i to (i + 1) mod n or
\* (i - 1) mod n, so that it is an index in 0..n-1 right after it.
C14_HoveredWraps ==
    [][\A key \in {"ArrowDown", "ArrowUp"} :
           (Arrow(key) /\ Len(searchResults) > 0) =>
               LET n == Len(searchResults)
                   step == IF key = "ArrowDown" THEN 1 ELSE -1
               IN /\ hoveredIndex'.t = "number"
                  /\ hoveredIndex'.n \in 0..(n - 1)
                  /\ hoveredIndex = Null =>
                         hoveredIndex'.n = (IF key = "ArrowDown" THEN 0 ELSE n - 1)
                  /\ hoveredIndex.t = "number" =>
                         hoveredIndex'.n = (hoveredIndex.n + step) % n]_vars

\* C15: Backspace or Delete with empty text and non-empty selection removes
\* exactly the last item and keeps the others in order; with empty
\* selection or non-empty text the selection is unchanged.
C15_BackspaceRemovesLast ==
    [][\A key \in {"Backspace", "Delete"} :
           BackspaceOrDelete(key) =>
               IF searchQuery = <<>> /\ selectedCharacters # <<>>
               THEN /\ Len(selectedCharacters') = Len(selectedCharacters) - 1
                    /\ \A k \in 1..Len(selectedCharacters') :
                           selectedCharacters'[k] = selectedCharacters[k]
               ELSE selectedCharacters' = selectedCharacters]_vars

\* C15 witness: the text is empty and only the first-appended of the
\* characters on screen is still selected.
C15_Witness ==
    /\ searchQuery = <<>>
    /\ Len(searchResults) = NumCharacters
    /\ Len(selectedCharacters) = 1
    /\ selectedCharacters[1].id = NumCharacters
    /\ inFlight = <<>>

\* The entries of s whose id is not id, in order.
RECURSIVE C16_Without(_, _)
C16_Without(s, id) ==
    IF s = <<>> THEN <<>>
    ELSE (IF Head(s).id = id THEN <<>> ELSE <<Head(s)>>)
             \o C16_Without(Tail(s), id)

\* C16: removeCharacter(id) removes exactly the entries with that id and
\* keeps the others in order, changes nothing when no entry has the id, and
\* applying it twice gives what applying it once gives.
C16_RemoveById ==
    \A id \in Ids :
        LET once == removeCharacter(selectedCharacters, id)
        IN /\ once = C16_Without(selectedCharacters, id)
           /\ (\A k \in 1..Len(selectedCharacters) :
                   selectedCharacters[k].id # id) => once = selectedCharacters
           /\ removeCharacter(once, id) = once

\* C16 witness: a selection of two with the first character in front, so
\* that removing either id leaves the other in place, while a third id (if
\* any) is absent.
C16_Witness ==
    /\ Len(selectedCharacters) = 2
    /\ selectedCharacters[1].id = 1
    /\ selectedCharacters[2].id = 2
    /\ searchQuery # <<>>

\* C17: updateSearchQuery(s) sets the text to s and isError to false, also
\* for the empty text and when isError was true, and leaves selection,
\* results and both indices alone.
C17_UpdateSearchQuery ==
    [][\A newQuery \in Texts :
           updateSearchQuery(newQuery) =>
               /\ searchQuery' = newQuery
               /\ isError' = FALSE
               /\ UNCHANGED <<selectedCharacters, searchResults,
                              highlightedIndex, hoveredIndex>>]_vars

\* C17 witness: the last lookup issued has failed, and the text was then
\* emptied, which cleared the error without a new lookup.
C17_Witness ==
    /\ searchQuery = <<>>
    /\ latest = "failed"
    /\ inFlight = <<>>
    /\ ~isError

\* C18: keyboard and mouse events issue no lookup and leave text, results,
\* isLoading and isError alone; pointer enter sets hoveredIndex to the row,
\* pointer leave sets it to null, neither changing highlightedIndex or the
\* selection.
C18_KeyboardAndMouseFrame ==
    [][/\ ( \/ \E key \in {"ArrowDown", "ArrowUp"} : Arrow(key)
            \/ Enter
            \/ \E key \in {"Backspace", "Delete"} : BackspaceOrDelete(key)
            \/ Tab
            \/ \E index \in Rows : handleMouseEnter(index)
            \/ handleMouseLeave
            \/ \E index \in Rows : ClickRow(index)
            \/ \E index \in Rows : ClickCheckbox(index)
            \/ \E k \in Ids : ClickTag(k) ) =>
              UNCHANGED <<inFlight, searchQuery, searchResults, isLoading,
                          isError>>
       /\ \A index \in Rows :
              handleMouseEnter(index) =>
                  /\ hoveredIndex' = Num(index)
                  /\ UNCHANGED <<highlightedIndex, selectedCharacters>>
       /\ handleMouseLeave =>
              /\ hoveredIndex' = Null
              /\ UNCHANGED <<highlightedIndex, selectedCharacters>>]_vars

\* C18 witness: the pointer is on the second row and an item is selected
\* while a lookup is outstanding and the keyboard highlight never moved.
C18_Witness ==
    /\ isLoading
    /\ inFlight # <<>>
    /\ hoveredIndex = Num(1)
    /\ highlightedIndex = Num(0)
    /\ Len(selectedCharacters) = 1

\* C19: one click on a result row's checkbox, which runs the checkbox's
\* change handler and the row's click handler on the same selection,
\* toggles the item exactly once: an unselected item is appended once, a
\* selected one is removed.
C19_CheckboxTogglesOnce ==
    [][\A index \in Rows :
           ClickCheckbox(index) =>
               LET x == searchResults[index + 1]
                   was == \E k \in 1..Len(selectedCharacters) :
                              selectedCharacters[k].id = x.id
                   isNow == \E k \in 1..Len(selectedCharacters') :
                                selectedCharacters'[k].id = x.id
               IN /\ isNow = ~was
                  /\ Len(selectedCharacters') =
                         Len(selectedCharacters) + (IF was THEN -1 ELSE 1)
                  /\ selectedCharacters' = C2_Toggled(selectedCharacters, x)]_vars

\* C19 witness: the first row's character is the only selected one while
\* the pointer is on its row.
C19_Witness ==
    /\ Len(searchResults) = NumCharacters
    /\ selectedCharacters = <<searchResults[1]>>
    /\ hoveredIndex = Num(0)
    /\ highlightedIndex = Num(0)

\* The text changes.
C20_Edit == \E newQuery \in Texts : updateSearchQuery(newQuery)

\* C20: if every lookup eventually resolves and the edits stop, a state
\* with no outstanding lookup and isLoading false is reached; and isLoading
\* turns true only on a change of the text to a non-empty value.
C20_EventuallyIdle ==
    /\ [][(~isLoading /\ isLoading') =>
              \E newQuery \in Texts \ {<<>>} : updateSearchQuery(newQuery)]_vars
    /\ (<>[][~C20_Edit]_vars) => <>[](inFlight = <<>> /\ ~isLoading)

\* C20 witness: at rest and not loading after lookups that resolved out of
\* order, the text having been emptied since.
C20_Witness ==
    /\ inFlight = <<>>
    /\ ~isLoading
    /\ searchQuery = <<>>
    /\ latest = "ok"
    /\ isError

====
